---- MODULE Spec2Model ----
(***************************************************************************)
(* vendorClustor-Backend: the daily order generation job, the packing     *)
(* list and the vendor/admin requests that feed them, as a state machine  *)
(* over the relational tables the handlers read and write.                *)
(*                                                                         *)
(* Units.  quantity columns are DECIMAL(10,2): a quantity is held in      *)
(* hundredths (50 is 0.50).  price / unit_price / total_price /           *)
(* total_amount columns are DECIMAL(10,2): held in cents (1025 is 10.25). *)
(* A JavaScript product quantity * price is held in 1/10000 (50 * 1025 =  *)
(* 51250 is 5.1250); the quantities (0.50, 1.00) and prices (10.00,       *)
(* 10.25) of the model are such that every product and sum is exact in a  *)
(* double.  Storing a JavaScript number into a DECIMAL(10,2) column       *)
(* rounds it (ToDecimal2).  The quantity a request carries is a            *)
(* JavaScript number, held in 1/10000 (5000 is 0.5, 1250 is 0.125).        *)
(*                                                                         *)
(* Every `await query(...)` of a handler is one atomic step; the          *)
(* statements of one handler are separate steps with no transaction       *)
(* around them, so other requests interleave between them.                *)
(***************************************************************************)
EXTENDS Integers, Sequences, FiniteSets, TLC

\* ---------------------------------------------------------------- bounds
\* number of vendor / admin requests (other than generation runs and
\* packing-list reads) in one behaviour
MaxRequests == 1
\* number of set-daily-needs requests in one behaviour of SpecNeeds
MaxNeedsRequests == 2

Vendors == {1, 2}
Products == {1, 2}
Dates == {1, 2}
Runs == {1, 2}
\* set-daily-needs requests that may be in flight together
DnSlots == {1, 2}
ProductNames == {"atta", "oil"}
\* vendor names, numbered
VendorNames == {1, 2}
OrderStatuses == {"pending", "processing", "out_for_delivery", "delivered", "cancelled"}

VARIABLES
    vendors,           \* table vendors: id -> [name, address, is_active]
    products,          \* table products: id -> [name, price, is_active]
    daily_needs,       \* table daily_needs: set of [vendor_id, product_id, quantity]
    extra_orders,      \* table extra_orders: set of [id, vendor_id, product_id, quantity, order_date]
    cancelled_orders,  \* table cancelled_orders: set of [vendor_id, cancel_date, reason]
    orders,            \* table orders: sequence, the index is the SERIAL id
    order_items,       \* table order_items: order id -> sequence of its rows, in insertion order
    gen,               \* POST /admin/generate-daily: the local state of each run
    dn,                \* POST /daily-needs: the requests in flight, by slot
    pk,                \* GET /daily-packing: the request in flight
    reply,             \* the latest answer to a request of one statement
    requests,          \* number of vendor / admin requests made so far
    return_requests,   \* table return_requests: set of [id, vendor_id, product_id, quantity]
    notifications,     \* table notifications: id -> [vendor_id, is_read]
    dp,                \* DELETE /products/:id: the request in flight
    rt,                \* POST /orders/:id/return: the request in flight
    view               \* GET /orders/:id: the request in flight

vars == <<vendors, products, daily_needs, extra_orders, cancelled_orders,
          orders, order_items, gen, dn, pk, reply, requests,
          return_requests, notifications, dp, rt, view>>

tables == <<vendors, products, daily_needs, extra_orders, cancelled_orders,
            orders, order_items>>

\* the return requests, the notifications and the requests that deal with
\* them or delete a product
elsewhere == <<return_requests, notifications, dp, rt, view>>

\* ---------------------------------------------------------------- helpers
RECURSIVE SumSeq(_)
\* sum of a sequence of numbers
SumSeq(s) == IF s = <<>> THEN 0 ELSE Head(s) + SumSeq(Tail(s))

RECURSIVE Ascending(_)
\* a finite set of numbers as a sequence, in increasing order
Ascending(S) ==
    IF S = {} THEN <<>>
    ELSE LET x == CHOOSE y \in S : \A z \in S : y <= z
         IN  <<x>> \o Ascending(S \ {x})

\* a JavaScript number (in 1/10000) stored into a DECIMAL(10,2) column (in
\* cents): PostgreSQL numeric rounds half away from zero; amounts are >= 0
ToDecimal2(x) == (x + 50) \div 100

\* authenticateVendor: the token's vendor row is selected WHERE is_active
\* the middleware without its is_active condition
authenticateVendor_AnyVendor(v) == TRUE

authenticateVendor(v) == vendors[v].is_active

\* ---------------------------------------------------------------- queries
\* orders.js 224-229: SELECT DISTINCT v.id, v.name, v.address FROM vendors v
\* JOIN daily_needs dn ON v.id = dn.vendor_id WHERE v.is_active = true
VendorsWithDailyNeeds ==
    LET ids == {v \in Vendors : vendors[v].is_active
                                /\ \E n \in daily_needs : n.vendor_id = v}
        Row(v) == [id |-> v, name |-> vendors[v].name, address |-> vendors[v].address]
        sorted == Ascending(ids)
    IN  [i \in 1..Len(sorted) |-> Row(sorted[i])]

\* the cancellation check with its two parameters bound the other way round
CancelledFor_SwappedParams(v, d) ==
    {c \in cancelled_orders : c.vendor_id = d /\ c.cancel_date = v}

\* orders.js 233-236: SELECT id FROM cancelled_orders WHERE vendor_id = $1
\* AND cancel_date = $2
CancelledFor(v, d) ==
    {c \in cancelled_orders : c.vendor_id = v /\ c.cancel_date = d}

\* the daily needs query without its p.is_active condition
DailyNeedsOf_AnyProduct(v) ==
    LET rows == {n \in daily_needs : n.vendor_id = v}
        Row(p) == CHOOSE n \in rows : n.product_id = p
        sorted == Ascending({n.product_id : n \in rows})
    IN  [i \in 1..Len(sorted) |->
            [product_id |-> sorted[i], quantity |-> Row(sorted[i]).quantity,
             price |-> products[sorted[i]].price]]

\* orders.js 242-247: SELECT dn.*, p.price ... FROM daily_needs dn JOIN
\* products p ... WHERE dn.vendor_id = $1 AND p.is_active = true
DailyNeedsOf(v) ==
    LET rows == {n \in daily_needs : n.vendor_id = v /\ products[n.product_id].is_active}
        Row(p) == CHOOSE n \in rows : n.product_id = p
        sorted == Ascending({n.product_id : n \in rows})
    IN  [i \in 1..Len(sorted) |->
            [product_id |-> sorted[i], quantity |-> Row(sorted[i]).quantity,
             price |-> products[sorted[i]].price]]

\* the extra orders query without its p.is_active condition
ExtraOrdersOf_AnyProduct(v, d) ==
    LET rows == {e \in extra_orders : e.vendor_id = v /\ e.order_date = d}
        Row(id) == CHOOSE e \in rows : e.id = id
        sorted == Ascending({e.id : e \in rows})
    IN  [i \in 1..Len(sorted) |->
            [product_id |-> Row(sorted[i]).product_id, quantity |-> Row(sorted[i]).quantity,
             price |-> products[Row(sorted[i]).product_id].price]]

\* orders.js 268-273: SELECT eo.*, p.price ... FROM extra_orders eo JOIN
\* products p ... WHERE eo.vendor_id = $1 AND eo.order_date = $2 AND
\* p.is_active = true
ExtraOrdersOf(v, d) ==
    LET rows == {e \in extra_orders : e.vendor_id = v /\ e.order_date = d
                                      /\ products[e.product_id].is_active}
        Row(id) == CHOOSE e \in rows : e.id = id
        sorted == Ascending({e.id : e \in rows})
    IN  [i \in 1..Len(sorted) |->
            [product_id |-> Row(sorted[i]).product_id, quantity |-> Row(sorted[i]).quantity,
             price |-> products[Row(sorted[i]).product_id].price]]

\* orders.js 256-265 and 275-284: one line per row, itemTotal = quantity * price
LineOf(row) ==
    [product_id |-> row.product_id, quantity |-> row.quantity,
     unit_price |-> row.price, total_price |-> row.quantity * row.price]

\* the lines with the rows of one product merged into one line
LinesOf_Merged(rows) ==
    LET ids == Ascending({rows[i].product_id : i \in 1..Len(rows)})
        Of(p) == {i \in 1..Len(rows) : rows[i].product_id = p}
        First(p) == CHOOSE i \in Of(p) : \A j \in Of(p) : i <= j
        Quantity(p) == SumSeq([k \in 1..Len(rows) |->
                                 IF rows[k].product_id = p THEN rows[k].quantity ELSE 0])
    IN  [k \in 1..Len(ids) |->
            LineOf([rows[First(ids[k])] EXCEPT !.quantity = Quantity(ids[k])])]

LinesOf(rows) == [i \in 1..Len(rows) |-> LineOf(rows[i])]

\* orders.js 253, 258, 277: totalAmount += itemTotal
TotalOf(lines) == SumSeq([i \in 1..Len(lines) |-> lines[i].total_price])

\* orders.js 298-300: INSERT INTO order_items (..., quantity, unit_price,
\* total_price): the row as the DECIMAL(10,2) columns hold it
ItemRow(line) ==
    [product_id |-> line.product_id, quantity |-> line.quantity,
     unit_price |-> line.unit_price, total_price |-> ToDecimal2(line.total_price)]

\* orders.js 288-291: INSERT INTO orders (vendor_id, order_date, total_amount,
\* status, delivery_address) VALUES ($1, $2, $3, 'pending', $4)
OrderRow(vendor, orderDate, totalAmount) ==
    [vendor_id |-> vendor.id, order_date |-> orderDate,
     total_amount |-> ToDecimal2(totalAmount), status |-> "pending",
     delivery_address |-> vendor.address]

\* ---------------------------------------------------------------- initial state
\* the local state of a generation run that has not started; inserted is the
\* set of the ids its INSERT INTO orders statements have returned
GenIdle ==
    [pc |-> "idle", orderDate |-> 0, vendorsResult |-> <<>>, vi |-> 0,
     totalAmount |-> 0, orderItems |-> <<>>, order |-> 0, ii |-> 0,
     generatedOrders |-> <<>>, status |-> 0, inserted |-> {}]

\* a set-daily-needs request: the vendor of the token, the list of the body,
\* the entries still to insert, the status answered
DnIdle == [pc |-> "idle", vendor |-> 0, list |-> <<>>, todo |-> <<>>, status |-> 0]

\* a product deletion: the product of the path, the status answered
DpIdle == [pc |-> "idle", product |-> 0, status |-> 0]

\* a return request: the vendor of the token, the order of the path, the
\* items still to insert, the status answered
RtIdle == [pc |-> "idle", vendor |-> 0, order |-> 0, todo |-> <<>>, status |-> 0]

\* an order read: the vendor of the token, the order of the path, the status
\* and the body answered
ViewIdle == [pc |-> "idle", vendor |-> 0, order |-> 0, status |-> 0, body |-> <<>>]

PkIdle ==
    [pc |-> "idle", targetDate |-> 0, dailyNeedsResult |-> <<>>,
     extraOrdersResult |-> <<>>, response |-> <<>>]

\* The data earlier requests left behind, two cases.
\* "plain": vendor 1 needs products 1 and 2, vendor 2 needs product 2; both
\* products on sale; no extra order, no cancellation.
\* "mixed": the same needs; product 2 taken off sale; vendor 1 and vendor 2
\* each placed an extra order of product 1 for date 1, vendor 1 one of
\* product 2 as well; vendor 1 cancelled date 2.
StandingNeeds ==
    {[vendor_id |-> 1, product_id |-> 1, quantity |-> 50],
     [vendor_id |-> 1, product_id |-> 2, quantity |-> 50],
     [vendor_id |-> 2, product_id |-> 2, quantity |-> 100]}

InitialData ==
    { [products_off |-> {}, extra_orders |-> {}, cancelled_orders |-> {}],
      [products_off |-> {2},
       extra_orders |->
          {[id |-> 1, vendor_id |-> 1, product_id |-> 1, quantity |-> 50, order_date |-> 1],
           [id |-> 2, vendor_id |-> 2, product_id |-> 1, quantity |-> 50, order_date |-> 1],
           [id |-> 3, vendor_id |-> 1, product_id |-> 2, quantity |-> 50, order_date |-> 1]},
       cancelled_orders |-> {[vendor_id |-> 1, cancel_date |-> 2, reason |-> "closed"]}] }

Init ==
    \E data \in InitialData :
        /\ vendors = [v \in Vendors |-> [name |-> v, address |-> 1, is_active |-> TRUE]]
        /\ products = [p \in Products |->
                         [name |-> IF p = 1 THEN "atta" ELSE "oil", price |-> 1025,
                          is_active |-> p \notin data.products_off]]
        /\ daily_needs = StandingNeeds
        /\ extra_orders = data.extra_orders
        /\ cancelled_orders = data.cancelled_orders
        /\ orders = <<>>
        /\ order_items = <<>>
        /\ gen = [r \in Runs |-> GenIdle]
        /\ dn = [k \in DnSlots |-> DnIdle]
        /\ pk = PkIdle
        /\ reply = [seq |-> 0, request |-> "none", vendor |-> 0, date |-> 0,
                    quantity |-> 0, status |-> 0]
        /\ requests = 0
        /\ return_requests = {}
        /\ notifications = [n \in Vendors |-> [vendor_id |-> n, is_read |-> FALSE]]
        /\ dp = DpIdle
        /\ rt = RtIdle
        /\ view = ViewIdle

\* ---------------------------------------------------------------- POST /admin/generate-daily
\* the loop moves to the next vendor, or leaves the loop and responds 200
GenNextVendor(g, generated) ==
    LET j == g.vi + 1 IN
    [g EXCEPT !.vi = j,
              !.pc = IF j <= Len(g.vendorsResult) THEN "checkCancelled" ELSE "responded",
              !.status = IF j <= Len(g.vendorsResult) THEN 0 ELSE 200,
              !.totalAmount = 0, !.orderItems = <<>>, !.order = 0, !.ii = 0,
              !.generatedOrders = generated]

\* the catch block: 500, nothing is undone
GenError(g) == [g EXCEPT !.pc = "responded", !.status = 500]

\* orders.js 220-230: the vendor list query
GenStart(r, d) ==
    /\ gen[r].pc = "idle"
    /\ \E ok \in BOOLEAN :
         gen' = [gen EXCEPT ![r] =
                   IF ok
                   THEN GenNextVendor([GenIdle EXCEPT !.orderDate = d,
                                                      !.vendorsResult = VendorsWithDailyNeeds],
                                      <<>>)
                   ELSE GenError([GenIdle EXCEPT !.orderDate = d])]
    /\ UNCHANGED <<tables, dn, pk, requests, reply, elsewhere>>

\* orders.js 231-240: the cancellation check of the current vendor
GenCheckCancelled(r) ==
    LET g == gen[r]
        vendor == g.vendorsResult[g.vi]
    IN  /\ g.pc = "checkCancelled"
        /\ gen' = [gen EXCEPT ![r] =
                     IF CancelledFor(vendor.id, g.orderDate) # {}
                     THEN GenNextVendor(g, g.generatedOrders)
                     ELSE [g EXCEPT !.pc = "readNeeds"]]
        /\ UNCHANGED <<tables, dn, pk, requests, reply, elsewhere>>

\* the step that keeps a vendor without a daily need on a product on sale
GenReadNeeds_KeepsEmpty(r) ==
    LET g == gen[r]
        vendor == g.vendorsResult[g.vi]
        lines == LinesOf(DailyNeedsOf(vendor.id))
    IN  /\ g.pc = "readNeeds"
        /\ gen' = [gen EXCEPT ![r] =
                     [g EXCEPT !.pc = "readExtras",
                               !.orderItems = lines,
                               !.totalAmount = TotalOf(lines)]]
        /\ UNCHANGED <<tables, dn, pk, requests, reply, elsewhere>>

\* orders.js 241-265: the daily needs of the current vendor, one line each
GenReadNeeds(r) ==
    LET g == gen[r]
        vendor == g.vendorsResult[g.vi]
        rows == DailyNeedsOf(vendor.id)
        lines == LinesOf(rows)
    IN  /\ g.pc = "readNeeds"
        /\ gen' = [gen EXCEPT ![r] =
                     IF Len(rows) = 0
                     THEN GenNextVendor(g, g.generatedOrders)
                     ELSE [g EXCEPT !.pc = "readExtras",
                                    !.orderItems = lines,
                                    !.totalAmount = TotalOf(lines)]]
        /\ UNCHANGED <<tables, dn, pk, requests, reply, elsewhere>>

\* the step that deletes the extra orders it has read
GenReadExtras_Consumes(r) ==
    LET g == gen[r]
        vendor == g.vendorsResult[g.vi]
        lines == LinesOf(ExtraOrdersOf(vendor.id, g.orderDate))
    IN  /\ g.pc = "readExtras"
        /\ gen' = [gen EXCEPT ![r] =
                     [g EXCEPT !.pc = "insertOrder",
                               !.orderItems = g.orderItems \o lines,
                               !.totalAmount = g.totalAmount + TotalOf(lines)]]
        /\ extra_orders' = {e \in extra_orders :
                               ~(e.vendor_id = vendor.id /\ e.order_date = g.orderDate
                                 /\ products[e.product_id].is_active)}
        /\ UNCHANGED <<vendors, products, daily_needs, cancelled_orders, orders,
                       order_items, dn, pk, requests, reply, elsewhere>>

\* orders.js 267-284: the extra orders of the current vendor for the date
GenReadExtras(r) ==
    LET g == gen[r]
        vendor == g.vendorsResult[g.vi]
        lines == LinesOf(ExtraOrdersOf(vendor.id, g.orderDate))
    IN  /\ g.pc = "readExtras"
        /\ gen' = [gen EXCEPT ![r] =
                     [g EXCEPT !.pc = "insertOrder",
                               !.orderItems = g.orderItems \o lines,
                               !.totalAmount = g.totalAmount + TotalOf(lines)]]
        /\ UNCHANGED <<tables, dn, pk, requests, reply, elsewhere>>

\* orders.js 286-293: the order row; a failed INSERT throws to the catch block
GenInsertOrder(r) ==
    LET g == gen[r]
        vendor == g.vendorsResult[g.vi]
    IN  /\ g.pc = "insertOrder"
        /\ \/ /\ orders' = Append(orders, OrderRow(vendor, g.orderDate, g.totalAmount))
              /\ order_items' = Append(order_items, <<>>)
              /\ gen' = [gen EXCEPT ![r] =
                           [g EXCEPT !.pc = "insertItems", !.order = Len(orders) + 1,
                                     !.ii = 1,
                                     !.inserted = @ \cup {Len(orders) + 1}]]
           \/ /\ gen' = [gen EXCEPT ![r] = GenError(g)]
              /\ UNCHANGED <<orders, order_items>>
        /\ UNCHANGED <<vendors, products, daily_needs, extra_orders, cancelled_orders,
                       dn, pk, requests, reply, elsewhere>>

\* orders.js 303-308: the entry pushed once every item row is in
GeneratedEntry(g) ==
    [order_id |-> g.order, vendor_name |-> g.vendorsResult[g.vi].name,
     total_amount |-> g.totalAmount, item_count |-> Len(g.orderItems)]

\* orders.js 295-309: one item row per step; after the last one the entry is
\* pushed and the loop goes on; a failed INSERT throws to the catch block,
\* as does the INSERT of a product_id that products no longer holds
\* (orders.js 687-697: product_id REFERENCES products(id))
GenInsertItem(r) ==
    LET g == gen[r]
    IN  /\ g.pc = "insertItems"
        /\ \/ /\ g.orderItems[g.ii].product_id \in DOMAIN products
              /\ order_items' = [order_items EXCEPT ![g.order] =
                                   Append(@, ItemRow(g.orderItems[g.ii]))]
              /\ gen' = [gen EXCEPT ![r] =
                           IF g.ii < Len(g.orderItems)
                           THEN [g EXCEPT !.ii = g.ii + 1]
                           ELSE GenNextVendor(g, Append(g.generatedOrders, GeneratedEntry(g)))]
           \/ /\ gen' = [gen EXCEPT ![r] = GenError(g)]
              /\ UNCHANGED order_items
        /\ UNCHANGED <<vendors, products, daily_needs, extra_orders, cancelled_orders,
                       orders, dn, pk, requests, reply, elsewhere>>

\* ---------------------------------------------------------------- vendor requests
\* SQL COALESCE($n, column): a field the request leaves out (the empty set)
\* keeps its value; a field it carries is {value}
Coalesce(given, old) == IF given = {} THEN old ELSE CHOOSE x \in given : TRUE

\* id SERIAL: the id of the next row of a table
NextId(rows) ==
    IF rows = {} THEN 1
    ELSE (CHOOSE i \in {x.id : x \in rows} : \A x \in rows : x.id <= i) + 1

\* the answer to a request of one statement
Reply(request, v, d, q, status) ==
    [seq |-> requests + 1, request |-> request, vendor |-> v, date |-> d,
     quantity |-> q, status |-> status]

\* the cancel-order that replaces the reason of a cancellation that exists
\* (INSERT ... ON CONFLICT DO UPDATE)
CancelOrder_Upsert(v, d, reason) ==
    /\ requests < MaxRequests
    /\ requests' = requests + 1
    /\ IF ~authenticateVendor(v)
       THEN /\ reply' = Reply("cancel-order", v, d, 0, 401)
            /\ UNCHANGED cancelled_orders
       ELSE /\ reply' = Reply("cancel-order", v, d, 0, 201)
            /\ cancelled_orders' =
                 (cancelled_orders \ CancelledFor(v, d))
                 \cup {[vendor_id |-> v, cancel_date |-> d, reason |-> reason]}
    /\ UNCHANGED <<vendors, products, daily_needs, extra_orders, orders, order_items,
                   gen, dn, pk, elsewhere>>

\* vendors.js 257-285 POST /cancel-order: one INSERT, 201; UNIQUE(vendor_id,
\* cancel_date) makes a second one throw, and the catch block answers 500
CancelOrder(v, d, reason) ==
    /\ requests < MaxRequests
    /\ requests' = requests + 1
    /\ IF ~authenticateVendor(v)
       THEN /\ reply' = Reply("cancel-order", v, d, 0, 401)
            /\ UNCHANGED cancelled_orders
       ELSE IF CancelledFor(v, d) # {}
       THEN /\ reply' = Reply("cancel-order", v, d, 0, 500)
            /\ UNCHANGED cancelled_orders
       ELSE /\ reply' = Reply("cancel-order", v, d, 0, 201)
            /\ cancelled_orders' =
                 cancelled_orders
                 \cup {[vendor_id |-> v, cancel_date |-> d, reason |-> reason]}
    /\ UNCHANGED <<vendors, products, daily_needs, extra_orders, orders, order_items,
                   gen, dn, pk, elsewhere>>

\* the extra-orders request without the minimum of its quantity validator
AddExtraOrder_NoMin(v, p, q, d) ==
    /\ requests < MaxRequests
    /\ requests' = requests + 1
    /\ IF ~authenticateVendor(v)
       THEN /\ reply' = Reply("extra-orders", v, d, q, 401)
            /\ UNCHANGED extra_orders
       ELSE /\ reply' = Reply("extra-orders", v, d, q, 201)
            /\ extra_orders' =
                 extra_orders
                 \cup {[id |-> NextId(extra_orders), vendor_id |-> v,
                        product_id |-> p, quantity |-> ToDecimal2(q), order_date |-> d]}
    /\ UNCHANGED <<vendors, products, daily_needs, cancelled_orders, orders, order_items,
                   gen, dn, pk, elsewhere>>

\* vendors.js 225-255 POST /extra-orders: the validators (isFloat({min: 0.1})
\* on quantity, 400), one INSERT, no uniqueness, 201; the quantity is stored
\* in a DECIMAL(10,2) column; the INSERT of a product_id that products does
\* not hold throws (500)
AddExtraOrder(v, p, q, d) ==
    /\ requests < MaxRequests
    /\ requests' = requests + 1
    /\ IF ~authenticateVendor(v)
       THEN /\ reply' = Reply("extra-orders", v, d, q, 401)
            /\ UNCHANGED extra_orders
       ELSE IF q < 1000
       THEN /\ reply' = Reply("extra-orders", v, d, q, 400)
            /\ UNCHANGED extra_orders
       ELSE IF p \notin DOMAIN products
       THEN /\ reply' = Reply("extra-orders", v, d, q, 500)
            /\ UNCHANGED extra_orders
       ELSE /\ reply' = Reply("extra-orders", v, d, q, 201)
            /\ extra_orders' =
                 extra_orders
                 \cup {[id |-> NextId(extra_orders), vendor_id |-> v,
                        product_id |-> p, quantity |-> ToDecimal2(q), order_date |-> d]}
    /\ UNCHANGED <<vendors, products, daily_needs, cancelled_orders, orders, order_items,
                   gen, dn, pk, elsewhere>>

\* the lowest slot that holds no set-daily-needs request in flight, if any
FreeSlot ==
    {k \in DnSlots : dn[k].pc = "idle" /\ \A j \in DnSlots : dn[j].pc = "idle" => k <= j}

\* vendors.js 190-205 POST /daily-needs, request k: authentication, the
\* validators (isFloat({min: 0.1}) on every quantity), then DELETE FROM
\* daily_needs WHERE vendor_id = $1
SetDailyNeeds(k, v, list) ==
    LET request == [DnIdle EXCEPT !.vendor = v, !.list = list] IN
    /\ dn[k].pc = "idle"
    /\ requests' = requests + 1
    /\ IF ~authenticateVendor(v)
       THEN dn' = [dn EXCEPT ![k] = [request EXCEPT !.status = 401]]
            /\ UNCHANGED daily_needs
       ELSE IF \E i \in 1..Len(list) : list[i].quantity < 1000
       THEN dn' = [dn EXCEPT ![k] = [request EXCEPT !.status = 400]]
            /\ UNCHANGED daily_needs
       ELSE /\ daily_needs' = {n \in daily_needs : n.vendor_id # v}
            /\ dn' = [dn EXCEPT ![k] =
                        IF list = <<>>
                        THEN [request EXCEPT !.status = 200]
                        ELSE [request EXCEPT !.pc = "insert", !.todo = list]]
    /\ UNCHANGED <<vendors, products, extra_orders, cancelled_orders, orders, order_items,
                   gen, pk, reply, elsewhere>>

\* the insert of request k without the UNIQUE(vendor_id, product_id)
\* constraint of the table
SetDailyNeedsInsert_NoUnique(k) ==
    LET need == Head(dn[k].todo)
    IN  /\ dn[k].pc = "insert"
        /\ daily_needs' = daily_needs \cup
              {[vendor_id |-> dn[k].vendor, product_id |-> need.product_id,
                quantity |-> ToDecimal2(need.quantity)]}
        /\ dn' = [dn EXCEPT ![k] =
                    IF Tail(dn[k].todo) = <<>>
                    THEN [dn[k] EXCEPT !.pc = "idle", !.todo = <<>>, !.status = 200]
                    ELSE [dn[k] EXCEPT !.todo = Tail(dn[k].todo)]]
        /\ UNCHANGED <<vendors, products, extra_orders, cancelled_orders, orders,
                       order_items, gen, pk, requests, reply, elsewhere>>

\* vendors.js 207-222, request k: one INSERT per entry of the list, the
\* quantity stored in a DECIMAL(10,2) column; UNIQUE(vendor_id, product_id)
\* makes the INSERT of a product the vendor already has a row for throw, and
\* product_id REFERENCES products(id) that of a product products does not
\* hold; the catch block answers 500 and what was deleted and inserted so far
\* stays
SetDailyNeedsInsert(k) ==
    LET need == Head(dn[k].todo)
        clash == \E n \in daily_needs :
                    n.vendor_id = dn[k].vendor /\ n.product_id = need.product_id
    IN  /\ dn[k].pc = "insert"
        /\ IF clash \/ need.product_id \notin DOMAIN products
           THEN /\ dn' = [dn EXCEPT ![k] =
                            [dn[k] EXCEPT !.pc = "idle", !.todo = <<>>, !.status = 500]]
                /\ UNCHANGED daily_needs
           ELSE /\ daily_needs' = daily_needs \cup
                     {[vendor_id |-> dn[k].vendor, product_id |-> need.product_id,
                       quantity |-> ToDecimal2(need.quantity)]}
                /\ dn' = [dn EXCEPT ![k] =
                            IF Tail(dn[k].todo) = <<>>
                            THEN [dn[k] EXCEPT !.pc = "idle", !.todo = <<>>, !.status = 200]
                            ELSE [dn[k] EXCEPT !.todo = Tail(dn[k].todo)]]
        /\ UNCHANGED <<vendors, products, extra_orders, cancelled_orders, orders,
                       order_items, gen, pk, requests, reply, elsewhere>>

\* the profile update that also rewrites the delivery address of the vendor's
\* orders
UpdateProfile_Readdress(v, name, address) ==
    /\ requests < MaxRequests
    /\ requests' = requests + 1
    /\ IF authenticateVendor(v)
       THEN /\ vendors' = [vendors EXCEPT ![v].name = Coalesce(name, @),
                                          ![v].address = Coalesce(address, @)]
            /\ orders' = [o \in DOMAIN orders |->
                            IF orders[o].vendor_id = v
                            THEN [orders[o] EXCEPT !.delivery_address =
                                                       Coalesce(address, @)]
                            ELSE orders[o]]
       ELSE UNCHANGED <<vendors, orders>>
    /\ reply' = Reply("profile", v, 0, 0, IF authenticateVendor(v) THEN 200 ELSE 401)
    /\ UNCHANGED <<products, daily_needs, extra_orders, cancelled_orders, order_items,
                   gen, dn, pk, elsewhere>>

\* vendors.js 128-165 PUT /profile: one UPDATE of the vendor's own row, the
\* fields the request leaves out keep their value, 200
UpdateProfile(v, name, address) ==
    /\ requests < MaxRequests
    /\ requests' = requests + 1
    /\ vendors' = IF authenticateVendor(v)
                  THEN [vendors EXCEPT ![v].name = Coalesce(name, @),
                                       ![v].address = Coalesce(address, @)]
                  ELSE vendors
    /\ reply' = Reply("profile", v, 0, 0, IF authenticateVendor(v) THEN 200 ELSE 401)
    /\ UNCHANGED <<products, daily_needs, extra_orders, cancelled_orders, orders,
                   order_items, gen, dn, pk, elsewhere>>

\* ---------------------------------------------------------------- admin requests
\* the product update that also carries a new price into the item rows and
\* the totals of the orders that hold the product
UpdateProduct_Reprice(p, name, price, is_active) ==
    LET new == Coalesce(price, products[p].price)
        Repriced(item) ==
            IF item.product_id = p
            THEN [item EXCEPT !.unit_price = new,
                              !.total_price = ToDecimal2(item.quantity * new)]
            ELSE item
        items == [o \in DOMAIN order_items |->
                    [i \in DOMAIN order_items[o] |-> Repriced(order_items[o][i])]]
    IN  /\ requests < MaxRequests
        /\ requests' = requests + 1
        /\ products' = [products EXCEPT ![p] =
                          [name |-> Coalesce(name, @.name), price |-> new,
                           is_active |-> Coalesce(is_active, @.is_active)]]
        /\ order_items' = items
        /\ orders' = [o \in DOMAIN orders |->
                        [orders[o] EXCEPT !.total_amount =
                            SumSeq([i \in DOMAIN items[o] |-> items[o][i].total_price])]]
        /\ UNCHANGED <<vendors, daily_needs, extra_orders, cancelled_orders, gen, dn, pk,
                       reply, elsewhere>>

\* admin.js 550-595 PUT /products/:id: the validators (isFloat({min: 0}) on
\* a price the request carries, 400), then one UPDATE of the product row, 404
\* when products holds no such row
UpdateProduct(p, name, price, is_active) ==
    /\ requests < MaxRequests
    /\ requests' = requests + 1
    /\ products' = IF (\E x \in price : x < 0) \/ p \notin DOMAIN products
                   THEN products
                   ELSE [products EXCEPT ![p] =
                           [name |-> Coalesce(name, @.name),
                            price |-> Coalesce(price, @.price),
                            is_active |-> Coalesce(is_active, @.is_active)]]
    /\ UNCHANGED <<vendors, daily_needs, extra_orders, cancelled_orders, orders,
                   order_items, gen, dn, pk, reply, elsewhere>>

\* admin.js 278-310 PUT /vendors/:id/status: one UPDATE of is_active
UpdateVendorStatus(v, is_active) ==
    /\ vendors' = [vendors EXCEPT ![v].is_active = is_active]
    /\ UNCHANGED <<products, daily_needs, extra_orders, cancelled_orders, orders,
                   order_items, gen, dn, pk, reply, elsewhere>>

\* orders.js 181-215 PUT /admin/:id/status: one UPDATE of the status
UpdateOrderStatus(o, status) ==
    /\ requests < MaxRequests
    /\ o \in DOMAIN orders
    /\ status \in OrderStatuses
    /\ requests' = requests + 1
    /\ orders' = [orders EXCEPT ![o].status = status]
    /\ UNCHANGED <<vendors, products, daily_needs, extra_orders, cancelled_orders,
                   order_items, gen, dn, pk, reply, elsewhere>>

\* ---------------------------------------------------------------- DELETE /products/:id
\* admin.js 602-611: SELECT COUNT(*) over the daily_needs, extra_orders and
\* order_items rows of the product
UsageCount(p) ==
    Cardinality({n \in daily_needs : n.product_id = p})
    + Cardinality({e \in extra_orders : e.product_id = p})
    + SumSeq([o \in 1..Len(order_items) |->
                Cardinality({i \in DOMAIN order_items[o] :
                                order_items[o][i].product_id = p})])

\* admin.js 598-617: the usage query; 400 when the product is in use
DeleteProductCheck(p) ==
    /\ dp.pc = "idle"
    /\ dp' = IF UsageCount(p) > 0
             THEN [pc |-> "idle", product |-> p, status |-> 400]
             ELSE [pc |-> "delete", product |-> p, status |-> 0]
    /\ UNCHANGED <<tables, gen, dn, pk, reply, requests,
                   return_requests, notifications, rt, view>>

\* orders.js 626-713: the rows a table keeps when product p goes, product_id
\* being REFERENCES products(id) ON DELETE CASCADE
WithoutProduct(rows, p) == {x \in rows : x.product_id # p}

\* admin.js 619-628: DELETE FROM products WHERE id = $1, a statement of its
\* own after the usage query; the rows that reference the product go with it;
\* 404 when products holds no such row
DeleteProductDelete ==
    LET p == dp.product
        Keeps(item) == item.product_id # p
    IN  /\ dp.pc = "delete"
        /\ IF p \in DOMAIN products
           THEN /\ products' = [q \in DOMAIN products \ {p} |-> products[q]]
                /\ daily_needs' = WithoutProduct(daily_needs, p)
                /\ extra_orders' = WithoutProduct(extra_orders, p)
                /\ return_requests' = WithoutProduct(return_requests, p)
                /\ order_items' = [o \in DOMAIN order_items |->
                                     SelectSeq(order_items[o], Keeps)]
                /\ dp' = [dp EXCEPT !.pc = "idle", !.status = 200]
           ELSE /\ dp' = [dp EXCEPT !.pc = "idle", !.status = 404]
                /\ UNCHANGED <<products, daily_needs, extra_orders, return_requests,
                               order_items>>
        /\ UNCHANGED <<vendors, cancelled_orders, orders, gen, dn, pk, reply, requests,
                       notifications, rt, view>>

\* ---------------------------------------------------------------- GET /orders/:id
\* orders.js 9-22: SELECT * FROM orders WHERE id = $1 AND vendor_id = $2; 404
\* without a row
GetOrder(v, o) ==
    LET request == [ViewIdle EXCEPT !.vendor = v, !.order = o] IN
    /\ view.pc = "idle"
    /\ view' = IF ~authenticateVendor(v)
               THEN [request EXCEPT !.status = 401]
               ELSE IF ~(o \in DOMAIN orders /\ orders[o].vendor_id = v)
               THEN [request EXCEPT !.status = 404]
               ELSE [request EXCEPT !.pc = "items", !.body = <<orders[o]>>]
    /\ UNCHANGED <<tables, gen, dn, pk, reply, requests,
                   return_requests, notifications, dp, rt>>

\* orders.js 24-35: the item rows of the order, then the answer
GetOrderItems ==
    /\ view.pc = "items"
    /\ view' = [view EXCEPT !.pc = "idle", !.status = 200,
                            !.body = <<view.body[1], order_items[view.order]>>]
    /\ UNCHANGED <<tables, gen, dn, pk, reply, requests,
                   return_requests, notifications, dp, rt>>

\* ---------------------------------------------------------------- POST /orders/:id/return
\* the return request that does not ask whose order it is
CreateReturnRequest_AnyOrder(v, o, items) ==
    LET request == [RtIdle EXCEPT !.vendor = v, !.order = o] IN
    /\ rt.pc = "idle"
    /\ requests < MaxRequests
    /\ requests' = requests + 1
    /\ rt' = IF ~authenticateVendor(v)
             THEN [request EXCEPT !.status = 401]
             ELSE IF \E i \in 1..Len(items) : items[i].quantity < 1000
             THEN [request EXCEPT !.status = 400]
             ELSE IF o \notin DOMAIN orders
             THEN [request EXCEPT !.status = 404]
             ELSE IF items = <<>>
             THEN [request EXCEPT !.status = 201]
             ELSE [request EXCEPT !.pc = "insert", !.todo = items]
    /\ UNCHANGED <<tables, gen, dn, pk, reply,
                   return_requests, notifications, dp, view>>

\* orders.js 44-66: authentication, the validators (isFloat({min: 0.1}) on
\* every quantity, 400), then SELECT * FROM orders WHERE id = $1 AND
\* vendor_id = $2, 404 without a row
CreateReturnRequest(v, o, items) ==
    LET request == [RtIdle EXCEPT !.vendor = v, !.order = o] IN
    /\ rt.pc = "idle"
    /\ requests < MaxRequests
    /\ requests' = requests + 1
    /\ rt' = IF ~authenticateVendor(v)
             THEN [request EXCEPT !.status = 401]
             ELSE IF \E i \in 1..Len(items) : items[i].quantity < 1000
             THEN [request EXCEPT !.status = 400]
             ELSE IF ~(o \in DOMAIN orders /\ orders[o].vendor_id = v)
             THEN [request EXCEPT !.status = 404]
             ELSE IF items = <<>>
             THEN [request EXCEPT !.status = 201]
             ELSE [request EXCEPT !.pc = "insert", !.todo = items]
    /\ UNCHANGED <<tables, gen, dn, pk, reply,
                   return_requests, notifications, dp, view>>

\* orders.js 68-83: one INSERT INTO return_requests per item, under the
\* vendor of the token; the quantity is stored in a DECIMAL(10,2) column; the
\* INSERT of a product_id that products does not hold throws (500); 201
\* after the last one
CreateReturnRequestInsert ==
    LET item == Head(rt.todo)
    IN  /\ rt.pc = "insert"
        /\ IF item.product_id \notin DOMAIN products
           THEN /\ rt' = [rt EXCEPT !.pc = "idle", !.todo = <<>>, !.status = 500]
                /\ UNCHANGED return_requests
           ELSE /\ return_requests' = return_requests \cup
                     {[id |-> NextId(return_requests), vendor_id |-> rt.vendor,
                       product_id |-> item.product_id,
                       quantity |-> ToDecimal2(item.quantity)]}
                /\ rt' = IF Tail(rt.todo) = <<>>
                         THEN [rt EXCEPT !.pc = "idle", !.todo = <<>>, !.status = 201]
                         ELSE [rt EXCEPT !.todo = Tail(rt.todo)]
        /\ UNCHANGED <<tables, gen, dn, pk, reply, requests, notifications, dp, view>>

\* ---------------------------------------------------------------- PUT /notifications/vendor/:id/read
\* orders.js 367-392 (and vendors.js 365): UPDATE notifications SET is_read =
\* true WHERE id = $1 AND vendor_id = $2; 404 without a row
MarkNotificationRead(v, n) ==
    LET found == n \in DOMAIN notifications /\ notifications[n].vendor_id = v
    IN  /\ requests < MaxRequests
        /\ requests' = requests + 1
        /\ IF ~authenticateVendor(v)
           THEN /\ reply' = Reply("notification-read", v, 0, 0, 401)
                /\ UNCHANGED notifications
           ELSE IF ~found
           THEN /\ reply' = Reply("notification-read", v, 0, 0, 404)
                /\ UNCHANGED notifications
           ELSE /\ reply' = Reply("notification-read", v, 0, 0, 200)
                /\ notifications' = [notifications EXCEPT ![n].is_read = TRUE]
        /\ UNCHANGED <<tables, gen, dn, pk, return_requests, dp, rt, view>>

\* ---------------------------------------------------------------- GET /admin/daily-packing
\* JavaScript values of the handler: a number, or a string held as the
\* sequence of the numerals it was put together from (the text of 50 is <<50>>)
JsNumber(n) == [type |-> "number", value |-> n]

JsString(s) == [type |-> "string", value |-> s]

JsText(x) == IF x.type = "number" THEN <<x.value>> ELSE x.value

\* a + b: the sum of two numbers, the concatenation when either is a string
JsPlus(a, b) ==
    IF a.type = "number" /\ b.type = "number"
    THEN JsNumber(a.value + b.value)
    ELSE JsString(JsText(a) \o JsText(b))

\* config/database.js, query(): a NUMERIC (SUM) or BIGINT (COUNT) column of a
\* result row reaches the handler as a JavaScript number
QueryNumber(n) == JsNumber(n)

\* ORDER BY p.name: the collation order of the product names
NameRank(name) == IF name = "atta" THEN 1 ELSE 2

\* the orders in which a query with ORDER BY p.name may return the groups of
\* the products ids: by name, products of one name in any order
OrderedByName(ids) ==
    {s \in [1..Cardinality(ids) -> ids] :
        /\ \A i, j \in DOMAIN s : i # j => s[i] # s[j]
        /\ \A i, j \in DOMAIN s :
              i < j => NameRank(products[s[i]].name) <= NameRank(products[s[j]].name)}

\* one group of query A or B: the rows of one product
GroupRow(p, rows) ==
    [product_name |-> products[p].name,
     price |-> products[p].price,
     total_quantity |-> QueryNumber(SumSeq([i \in 1..Len(rows) |-> rows[i].quantity])),
     vendor_count |-> QueryNumber(Cardinality({rows[i].vendor_id : i \in 1..Len(rows)})),
     vendor_names |-> Ascending({vendors[rows[i].vendor_id].name : i \in 1..Len(rows)})]

\* admin.js 98-112, query A: daily_needs JOIN products JOIN vendors WHERE
\* p.is_active AND v.is_active GROUP BY p.id, ...: the rows of product p
DailyNeedsRowsOf(p) ==
    LET rows == {n \in daily_needs : n.product_id = p /\ products[p].is_active
                                     /\ vendors[n.vendor_id].is_active}
        Row(v) == CHOOSE n \in rows : n.vendor_id = v
        sorted == Ascending({n.vendor_id : n \in rows})
    IN  [i \in 1..Len(sorted) |-> Row(sorted[i])]

\* admin.js 114-128, query B: extra_orders JOIN products JOIN vendors WHERE
\* eo.order_date = $1 AND p.is_active AND v.is_active GROUP BY p.id, ...
ExtraOrdersRowsOf(p, d) ==
    LET rows == {e \in extra_orders : e.product_id = p /\ e.order_date = d
                                      /\ products[p].is_active
                                      /\ vendors[e.vendor_id].is_active}
        Row(id) == CHOOSE e \in rows : e.id = id
        sorted == Ascending({e.id : e \in rows})
    IN  [i \in 1..Len(sorted) |-> Row(sorted[i])]

\* the results query A may return
DailyNeedsGrouped ==
    LET ids == {p \in Products : Len(DailyNeedsRowsOf(p)) > 0}
    IN  {[i \in DOMAIN s |-> GroupRow(s[i], DailyNeedsRowsOf(s[i]))] : s \in OrderedByName(ids)}

\* the results query B may return
ExtraOrdersGrouped(d) ==
    LET ids == {p \in Products : Len(ExtraOrdersRowsOf(p, d)) > 0}
    IN  {[i \in DOMAIN s |-> GroupRow(s[i], ExtraOrdersRowsOf(s[i], d))] : s \in OrderedByName(ids)}

\* the cancellations query without its v.is_active condition
CancelledOrdersOn_AnyVendor(d) ==
    LET rows == {c \in cancelled_orders : c.cancel_date = d}
        Row(v) == CHOOSE c \in rows : c.vendor_id = v
        sorted == Ascending({c.vendor_id : c \in rows})
    IN  [i \in 1..Len(sorted) |->
            [vendor_name |-> vendors[sorted[i]].name, reason |-> Row(sorted[i]).reason]]

\* admin.js 130-137: cancelled_orders JOIN vendors WHERE co.cancel_date = $1
\* AND v.is_active
CancelledOrdersOn(d) ==
    LET rows == {c \in cancelled_orders : c.cancel_date = d /\ vendors[c.vendor_id].is_active}
        Row(v) == CHOOSE c \in rows : c.vendor_id = v
        sorted == Ascending({c.vendor_id : c \in rows})
    IN  [i \in 1..Len(sorted) |->
            [vendor_name |-> vendors[sorted[i]].name, reason |-> Row(sorted[i]).reason]]

RECURSIVE MergeDaily(_, _)
\* admin.js 142-153: packingList[item.product_name] = {...} for each row of A
MergeDaily(packingList, rows) ==
    IF rows = <<>> THEN packingList
    ELSE LET item == Head(rows)
             entry == [product_name |-> item.product_name, price |-> item.price,
                       daily_quantity |-> item.total_quantity,
                       extra_quantity |-> JsNumber(0),
                       total_quantity |-> item.total_quantity,
                       vendor_count |-> item.vendor_count,
                       vendor_names |-> item.vendor_names]
         IN  MergeDaily((item.product_name :> entry) @@ packingList, Tail(rows))

RECURSIVE MergeExtra_Dedup(_, _)
\* the merge that counts a vendor once when it is in both results
MergeExtra_Dedup(packingList, rows) ==
    IF rows = <<>> THEN packingList
    ELSE LET item == Head(rows)
             old == packingList[item.product_name]
             names == old.vendor_names \o item.vendor_names
             entry ==
                IF item.product_name \in DOMAIN packingList
                THEN [old EXCEPT !.extra_quantity = JsPlus(@, item.total_quantity),
                                 !.total_quantity = JsPlus(@, item.total_quantity),
                                 !.vendor_count =
                                     JsNumber(Cardinality({names[i] : i \in 1..Len(names)})),
                                 !.vendor_names = names]
                ELSE [product_name |-> item.product_name, price |-> item.price,
                      daily_quantity |-> JsNumber(0),
                      extra_quantity |-> item.total_quantity,
                      total_quantity |-> item.total_quantity,
                      vendor_count |-> item.vendor_count,
                      vendor_names |-> item.vendor_names]
         IN  MergeExtra_Dedup((item.product_name :> entry) @@ packingList, Tail(rows))

RECURSIVE MergeExtra(_, _)
\* admin.js 156-177: each row of B is added to the entry of its name, or
\* becomes the entry of its name
MergeExtra(packingList, rows) ==
    IF rows = <<>> THEN packingList
    ELSE LET item == Head(rows)
             old == packingList[item.product_name]
             entry ==
                IF item.product_name \in DOMAIN packingList
                THEN [old EXCEPT !.extra_quantity = JsPlus(@, item.total_quantity),
                                 !.total_quantity = JsPlus(@, item.total_quantity),
                                 !.vendor_count = JsPlus(@, item.vendor_count),
                                 !.vendor_names = @ \o item.vendor_names]
                ELSE [product_name |-> item.product_name, price |-> item.price,
                      daily_quantity |-> JsNumber(0),
                      extra_quantity |-> item.total_quantity,
                      total_quantity |-> item.total_quantity,
                      vendor_count |-> item.vendor_count,
                      vendor_names |-> item.vendor_names]
         IN  MergeExtra((item.product_name :> entry) @@ packingList, Tail(rows))

\* admin.js 139-188: the response built from the three results
PackingResponse(targetDate, dailyNeedsResult, extraOrdersResult, cancelledOrdersResult) ==
    LET packingList == MergeExtra(MergeDaily(<<>>, dailyNeedsResult), extraOrdersResult)
        names == UNION {{packingList[k].vendor_names[i] :
                            i \in 1..Len(packingList[k].vendor_names)} :
                        k \in DOMAIN packingList}
    IN  [date |-> targetDate,
         packing_list |-> packingList,
         cancelled_orders |-> cancelledOrdersResult,
         summary |-> [total_products |-> Cardinality(DOMAIN packingList),
                      total_vendors |-> Cardinality(names),
                      cancelled_vendors |-> Len(cancelledOrdersResult)]]

\* admin.js 93-112: the request starts, query A
PackingQueryDaily(d) ==
    /\ pk.pc = "idle"
    /\ \E result \in DailyNeedsGrouped :
         pk' = [pc |-> "queryExtra", targetDate |-> d, dailyNeedsResult |-> result,
                extraOrdersResult |-> <<>>, response |-> <<>>]
    /\ UNCHANGED <<tables, gen, dn, requests, reply, elsewhere>>

\* admin.js 114-128: query B
PackingQueryExtra ==
    /\ pk.pc = "queryExtra"
    /\ \E result \in ExtraOrdersGrouped(pk.targetDate) :
         pk' = [pk EXCEPT !.pc = "queryCancelled", !.extraOrdersResult = result]
    /\ UNCHANGED <<tables, gen, dn, requests, reply, elsewhere>>

\* admin.js 130-188: the cancellations query, the merge and the response
PackingRespond ==
    /\ pk.pc = "queryCancelled"
    /\ pk' = [pk EXCEPT !.pc = "responded",
                        !.response = PackingResponse(pk.targetDate, pk.dailyNeedsResult,
                                                     pk.extraOrdersResult,
                                                     CancelledOrdersOn(pk.targetDate))]
    /\ UNCHANGED <<tables, gen, dn, requests, reply, elsewhere>>

\* ---------------------------------------------------------------- inputs
\* the lists a set-daily-needs request carries
NeedLists ==
    { <<>>,
      <<[product_id |-> 1, quantity |-> 10000]>>,
      <<[product_id |-> 2, quantity |-> 5000], [product_id |-> 1, quantity |-> 5000]>>,
      <<[product_id |-> 2, quantity |-> 5000], [product_id |-> 1, quantity |-> -5000]>> }

\* more lists: a quantity of 0.125, a product named twice, a product that
\* does not exist
NeedListsMore ==
    { <<[product_id |-> 1, quantity |-> 1250]>>,
      <<[product_id |-> 1, quantity |-> 5000], [product_id |-> 1, quantity |-> 10000]>>,
      <<[product_id |-> 2, quantity |-> 5000], [product_id |-> 3, quantity |-> 5000]>> }

\* the fields a product update carries: one field, the others left out
ProductUpdates ==
    {[name |-> {}, price |-> {x}, is_active |-> {}] : x \in {1000, -1000}}
    \cup {[name |-> {}, price |-> {}, is_active |-> {b}] : b \in BOOLEAN}

VendorRequest ==
    \/ \E v \in Vendors, d \in Dates : CancelOrder(v, d, "holiday")
    \/ \E v \in Vendors, d \in Dates, q \in {5000, 0} :
          AddExtraOrder(v, 1, q, d)
    \/ \E k \in FreeSlot, v \in Vendors, list \in NeedLists :
          requests < MaxRequests /\ SetDailyNeeds(k, v, list)
    \/ \E k \in DnSlots : SetDailyNeedsInsert(k)
    \/ \E v \in Vendors : UpdateProfile(v, {}, {2})

\* a product update that renames the product
ProductRenames ==
    {[name |-> {x}, price |-> {}, is_active |-> {}] : x \in ProductNames}

AdminRequest ==
    \/ \E p \in Products, u \in ProductUpdates : UpdateProduct(p, u.name, u.price, u.is_active)
    \/ \E v \in Vendors :
          requests < MaxRequests /\ requests' = requests + 1 /\ UpdateVendorStatus(v, FALSE)
    \/ \E o \in 1..Len(orders), s \in {"processing", "delivered"} :
          UpdateOrderStatus(o, s)

\* the steps of a run after its vendor list query
GenStep(r) ==
    \/ GenCheckCancelled(r)
    \/ GenReadNeeds(r)
    \/ GenReadExtras(r)
    \/ GenInsertOrder(r)
    \/ GenInsertItem(r)

NoRunInProgress == \A r \in Runs : gen[r].pc \in {"idle", "responded"}

\* the runs take their numbers in the order in which they start
NextRun == {r \in Runs : gen[r].pc = "idle" /\ \A j \in Runs : j < r => gen[j].pc # "idle"}

\* ---------------------------------------------------------------- specifications
\* Spec: every request interleaves with the generation runs at every await;
\* the runs themselves follow one another (the scheduler's daily trigger,
\* a re-run after the first has answered).
Next ==
    \/ \E r \in NextRun, d \in Dates : NoRunInProgress /\ GenStart(r, d)
    \/ \E r \in Runs : GenStep(r)
    \/ VendorRequest
    \/ AdminRequest

Spec == Init /\ [][Next]_vars

\* SpecConcurrent: the generation runs interleave with one another at every
\* await (nothing in the handler excludes a second invocation); the tables
\* they read stay as they are.
NextConcurrent ==
    \/ \E r \in Runs, d \in Dates : GenStart(r, d)
    \/ \E r \in Runs : GenStep(r)

SpecConcurrent == Init /\ [][NextConcurrent]_vars

\* SpecPacking: the packing list read on the data the requests have left
\* (products and vendors renamed too); no request interleaves with its three queries.
NextPacking ==
    \/ pk.pc = "idle" /\ VendorRequest
    \/ pk.pc = "idle" /\ AdminRequest
    \/ \E p \in Products, u \in ProductRenames :
          pk.pc = "idle" /\ UpdateProduct(p, u.name, u.price, u.is_active)
    \/ \E v \in Vendors, name \in VendorNames :
          pk.pc = "idle" /\ UpdateProfile(v, {name}, {})
    \/ \E d \in Dates : PackingQueryDaily(d)
    \/ PackingQueryExtra
    \/ PackingRespond

SpecPacking == Init /\ [][NextPacking]_vars

\* SpecNeeds: set-daily-needs requests alone, interleaved with one another
\* at every await, on all the lists.
NextNeeds ==
    \/ \E k \in FreeSlot, v \in Vendors, list \in NeedLists \cup NeedListsMore :
          requests < MaxNeedsRequests /\ SetDailyNeeds(k, v, list)
    \/ \E k \in DnSlots : SetDailyNeedsInsert(k)

SpecNeeds == Init /\ [][NextNeeds]_vars

\* SpecAgreement: the requests come first; then, over the tables they have
\* left, generation runs and the packing list are computed one after the
\* other, in any order (a run writes orders and items only, which the packing
\* list does not read).
NothingStarted ==
    /\ \A r \in Runs : gen[r].pc = "idle"
    /\ pk.pc = "idle"

NoNeedsRequestInProgress == \A k \in DnSlots : dn[k].pc = "idle"

NextAgreement ==
    \/ NothingStarted /\ VendorRequest
    \/ NothingStarted /\ AdminRequest
    \/ \E r \in NextRun, d \in Dates :
          /\ NoNeedsRequestInProgress /\ NoRunInProgress
          /\ pk.pc \in {"idle", "responded"}
          /\ GenStart(r, d)
    \/ \E r \in Runs : GenStep(r)
    \/ \E d \in Dates :
          NoNeedsRequestInProgress /\ NoRunInProgress /\ PackingQueryDaily(d)
    \/ PackingQueryExtra
    \/ PackingRespond

SpecAgreement == Init /\ [][NextAgreement]_vars

\* SpecDelete: product deletions interleave, at every await, with the
\* set-daily-needs and extra-order requests and with the generation runs.
NextDelete ==
    \/ \E k \in FreeSlot, v \in Vendors, list \in NeedLists :
          requests < MaxRequests /\ SetDailyNeeds(k, v, list)
    \/ \E k \in DnSlots : SetDailyNeedsInsert(k)
    \/ \E v \in Vendors, d \in Dates : AddExtraOrder(v, 1, 5000, d)
    \/ \E r \in NextRun, d \in Dates : NoRunInProgress /\ GenStart(r, d)
    \/ \E r \in Runs : GenStep(r)
    \/ \E p \in Products : DeleteProductCheck(p)
    \/ DeleteProductDelete

SpecDelete == Init /\ [][NextDelete]_vars

\* the vendor the admin switches off and on
Switched == {1}

\* SpecStatus: the admin switches a vendor off and on again at any moment
\* between the vendor requests, the statements of a generation run and the
\* queries of the packing list, all for date 1; the run and the packing list
\* start one after the other.
NextStatus ==
    \/ \E v \in Switched, is_active \in BOOLEAN :
          UpdateVendorStatus(v, is_active) /\ UNCHANGED requests
    \/ \E v \in Vendors : CancelOrder(v, 1, "holiday")
    \/ \E v \in Vendors : AddExtraOrder(v, 1, 5000, 1)
    \/ \E k \in FreeSlot, v \in Vendors :
          requests < MaxRequests
          /\ SetDailyNeeds(k, v, <<[product_id |-> 1, quantity |-> 10000]>>)
    \/ \E k \in DnSlots : SetDailyNeedsInsert(k)
    \/ \E v \in Vendors : UpdateProfile(v, {}, {2})
    \/ pk.pc \in {"idle", "responded"} /\ GenStart(1, 1)
    \/ \E r \in Runs : GenStep(r)
    \/ NoRunInProgress /\ PackingQueryDaily(1)
    \/ PackingQueryExtra
    \/ PackingRespond

SpecStatus == Init /\ [][NextStatus]_vars

\* the item lists a return request carries
ReturnLists ==
    { <<[product_id |-> 1, quantity |-> 5000]>>,
      <<[product_id |-> 1, quantity |-> 5000], [product_id |-> 2, quantity |-> 10000]>> }

\* SpecTenancy: every request a vendor can make, interleaved with one
\* another and with a generation run; the reads of orders start while no run
\* is between its statements.
NextTenancy ==
    \/ VendorRequest
    \/ \E v \in Vendors, o \in 1..(Len(orders) + 1), items \in ReturnLists :
          CreateReturnRequest(v, o, items)
    \/ CreateReturnRequestInsert
    \/ \E v \in Vendors, n \in DOMAIN notifications : MarkNotificationRead(v, n)
    \/ \E v \in Vendors, o \in 1..(Len(orders) + 1) : NoRunInProgress /\ GetOrder(v, o)
    \/ GetOrderItems
    \/ \E d \in Dates : GenStart(1, d)
    \/ \E r \in Runs : GenStep(r)

SpecTenancy == Init /\ [][NextTenancy]_vars

\* ---------------------------------------------------------------- properties
\* what the tables say, stated without the queries of the handlers
HasCancellation(v, d) ==
    \E c \in cancelled_orders : c.vendor_id = v /\ c.cancel_date = d

HasActiveNeed(v) ==
    \E n \in daily_needs : n.vendor_id = v /\ products[n.product_id].is_active

HasActiveExtra(v, d) ==
    \E e \in extra_orders :
        e.vendor_id = v /\ e.order_date = d /\ products[e.product_id].is_active

OrdersOf(v, d) ==
    {o \in DOMAIN orders : orders[o].vendor_id = v /\ orders[o].order_date = d}

\* the vendor whose turn it is in run r
CurrentVendor(r) == gen[r].vendorsResult[gen[r].vi].id

\* run r has gone through the turns of the vendors before index vi
Processed(r) ==
    {gen[r].vendorsResult[j].id : j \in 1..(IF gen[r].pc = "responded" /\ gen[r].status = 200
                                            THEN Len(gen[r].vendorsResult)
                                            ELSE gen[r].vi - 1)}

\* C1: when run r makes its cancellation check of vendor V for date D and a
\* cancelled_orders row for (V, D) exists, the step ends V's turn: the run
\* goes to the next vendor (or answers), inserts no order and no item, and
\* reports nothing for V; and a run inserts rows only for the vendor whose
\* turn it is, for its own date.
C1_CancelledVendorSkipped ==
    /\ [][\A r \in Runs :
            (gen[r].pc = "checkCancelled" /\ gen'[r] # gen[r]
             /\ HasCancellation(CurrentVendor(r), gen[r].orderDate))
            => /\ gen'[r].vi = gen[r].vi + 1
               /\ gen'[r].pc \in {"checkCancelled", "responded"}
               /\ gen'[r].generatedOrders = gen[r].generatedOrders
               /\ orders' = orders
               /\ order_items' = order_items]_vars
    /\ [](\A r \in Runs :
            gen[r].pc = "insertItems"
            => /\ orders[gen[r].order].vendor_id = CurrentVendor(r)
               /\ orders[gen[r].order].order_date = gen[r].orderDate)

\* C1 witness: a run for date D has answered 200 after the turn of a vendor
\* with daily needs on a product on sale and a cancellation for D that was
\* there from the start; no order exists for the pair.
C1_Witness ==
    \E r \in Runs, v \in Vendors :
        /\ requests = 0
        /\ gen[r].pc = "responded" /\ gen[r].status = 200
        /\ v \in Processed(r)
        /\ HasCancellation(v, gen[r].orderDate)
        /\ HasActiveNeed(v)
        /\ OrdersOf(v, gen[r].orderDate) = {}

\* C2: at most one order row per (vendor_id, order_date).
C2_OneOrderPerVendorDate ==
    \A o1, o2 \in DOMAIN orders :
        (orders[o1].vendor_id = orders[o2].vendor_id
         /\ orders[o1].order_date = orders[o2].order_date) => o1 = o2

\* the sum of total_price over the item rows of order o
ItemsTotal(o) == SumSeq([i \in 1..Len(order_items[o]) |-> order_items[o][i].total_price])

\* C3: every order row's total_amount is the sum of total_price over its
\* item rows.
C3_TotalIsSumOfItems ==
    \A o \in DOMAIN orders : orders[o].total_amount = ItemsTotal(o)

\* C4: once a write failure has ended a run, no order row of the vendor it
\* was working on is left without its complete set of item rows.
C4_FailedOrderCommitsNothing ==
    \A r \in Runs :
        (gen[r].pc = "responded" /\ gen[r].status = 500 /\ gen[r].order \in DOMAIN orders)
        => Len(order_items[gen[r].order]) = Len(gen[r].orderItems)

\* C5: a run that has entered its loop answers 200 after the turn of every
\* vendor of its list; only the failure of the vendor list query (before the
\* loop) gives 500.
C5_BatchSurvivesVendorFailure ==
    \A r \in Runs :
        (gen[r].pc = "responded" /\ gen[r].vi >= 1)
        => gen[r].status = 200 /\ gen[r].vi = Len(gen[r].vendorsResult) + 1

RECURSIVE SumQuantity(_)
\* the sum of quantity over a finite set of rows
SumQuantity(rows) ==
    IF rows = {} THEN 0
    ELSE LET x == CHOOSE y \in rows : TRUE IN x.quantity + SumQuantity(rows \ {x})

\* the demand for product p on date d: the daily needs of active vendors plus
\* their extra orders for d, the vendors with a cancellation for d left out
DemandOf(p, d) ==
    SumQuantity({n \in daily_needs :
                    n.product_id = p /\ vendors[n.vendor_id].is_active
                    /\ ~HasCancellation(n.vendor_id, d)})
    + SumQuantity({e \in extra_orders :
                    e.product_id = p /\ e.order_date = d /\ vendors[e.vendor_id].is_active
                    /\ ~HasCancellation(e.vendor_id, d)})

\* the total_quantity the response gives under a product name, 0 without an entry
PackedQuantity(response, name) ==
    IF name \in DOMAIN response.packing_list
    THEN response.packing_list[name].total_quantity
    ELSE JsNumber(0)

\* C6: in the packing list for date D, the total_quantity of every product
\* on sale (taken where no other product bears its name) is the demand of the
\* active vendors without a cancellation for D.
C6_PackingExcludesCancelled ==
    pk.pc = "responded"
    => \A p \in Products :
          (products[p].is_active
           /\ \A q \in Products : q # p => products[q].name # products[p].name)
          => PackedQuantity(pk.response, products[p].name)
             = JsNumber(DemandOf(p, pk.targetDate))

\* C7: when run r reads the daily needs of vendor V and V has no daily need
\* on a product on sale, the step ends V's turn: no order, no item and no
\* report for V, whatever extra orders V has; and a run that goes on to
\* insert holds at least one line that is not an extra order.
C7_NoActiveNeedNoOrder ==
    /\ [][\A r \in Runs :
            (gen[r].pc = "readNeeds" /\ gen'[r] # gen[r]
             /\ ~HasActiveNeed(CurrentVendor(r)))
            => /\ gen'[r].vi = gen[r].vi + 1
               /\ gen'[r].pc \in {"checkCancelled", "responded"}
               /\ gen'[r].generatedOrders = gen[r].generatedOrders
               /\ orders' = orders
               /\ order_items' = order_items]_vars
    /\ [][\A r \in Runs :
            (gen[r].pc = "readNeeds" /\ gen'[r].pc = "readExtras")
            => HasActiveNeed(CurrentVendor(r))]_vars
    /\ [][\A r \in Runs :
            (Len(orders') > Len(orders) /\ gen'[r] # gen[r])
            => gen[r].pc = "insertOrder" /\ Len(gen[r].orderItems) >= 1]_vars

\* C7 witness: a run for date D has answered 200 after the turn of a vendor
\* that has, from the start, daily needs only on a product off sale, no
\* cancellation for D and an extra order for D on a product on sale; no
\* order exists for the pair, and one does for another vendor.
C7_Witness ==
    \E r \in Runs, v \in Vendors :
        /\ requests = 0
        /\ gen[r].pc = "responded" /\ gen[r].status = 200
        /\ v \in Processed(r)
        /\ ~HasCancellation(v, gen[r].orderDate)
        /\ ~HasActiveNeed(v)
        /\ HasActiveExtra(v, gen[r].orderDate)
        /\ OrdersOf(v, gen[r].orderDate) = {}
        /\ \E w \in Vendors : OrdersOf(w, gen[r].orderDate) # {}

\* C8: a vendor with a cancelled_orders row for date D has no item row on
\* an order of date D.
C8_CancelledVendorHasNoItems ==
    \A c \in cancelled_orders :
        \A o \in OrdersOf(c.vendor_id, c.cancel_date) : order_items[o] = <<>>

\* the daily_needs rows of vendor v on a product on sale
ActiveNeedRows(v) ==
    {n \in daily_needs : n.vendor_id = v /\ products[n.product_id].is_active}

\* the extra_orders rows of vendor v for date d on a product on sale
ActiveExtraRows(v, d) ==
    {e \in extra_orders :
        e.vendor_id = v /\ e.order_date = d /\ products[e.product_id].is_active}

\* the lines i of a list that carry product p in quantity q at the price
\* the products table holds now
LinesFor(lines, p, q) ==
    {i \in DOMAIN lines : /\ lines[i].product_id = p
                          /\ lines[i].quantity = q
                          /\ lines[i].unit_price = products[p].price}

\* the lines the step from g to h has appended to orderItems
Appended(g, h) == SubSeq(h.orderItems, Len(g.orderItems) + 1, Len(h.orderItems))

\* quantity * unit_price (1/10000) as a DECIMAL(10,2) amount (cents), half away from zero
AmountIn2Decimals(quantity, unit_price) == (quantity * unit_price + 50) \div 100

\* the item rows of order o are the given lines, each with total_price =
\* quantity * unit_price in two decimals
ItemsAre(o, lines) ==
    /\ Len(order_items[o]) = Len(lines)
    /\ \A i \in DOMAIN lines :
          /\ order_items[o][i].product_id = lines[i].product_id
          /\ order_items[o][i].quantity = lines[i].quantity
          /\ order_items[o][i].unit_price = lines[i].unit_price
          /\ order_items[o][i].total_price =
                AmountIn2Decimals(lines[i].quantity, lines[i].unit_price)

\* the step in which run r reads the daily needs and keeps the vendor
ReadNeedsStep(r) == gen[r].pc = "readNeeds" /\ gen'[r].pc = "readExtras"

\* the step in which run r reads the extra orders
ReadExtrasStep(r) == gen[r].pc = "readExtras" /\ gen'[r].pc = "insertOrder"

C10_ItemsAndTotalsFrozen ==
    [][\A o \in DOMAIN orders :
          /\ o \in DOMAIN orders'
          /\ orders'[o].total_amount = orders[o].total_amount
          /\ Len(order_items'[o]) >= Len(order_items[o])
          /\ \A i \in DOMAIN order_items[o] : order_items'[o][i] = order_items[o][i]]_vars

\* C10 witness: an item row carries a unit_price that is no longer the price
\* of its product: the product was updated after the row was inserted.
C10_Witness ==
    \E o \in DOMAIN orders : \E i \in DOMAIN order_items[o] :
        /\ order_items[o][i].unit_price # products[order_items[o][i].product_id].price
        /\ orders[o].total_amount > 0

\* C11: every order row a run inserts has status 'pending' and the
\* delivery_address the run read in its vendor list query for that vendor,
\* and no step (a profile update that changes the address included) changes
\* the delivery_address of an order that exists.
C11_DeliveryAddressFixed ==
    [][/\ \A o \in DOMAIN orders :
             /\ o \in DOMAIN orders'
             /\ orders'[o].delivery_address = orders[o].delivery_address
       /\ Len(orders') > Len(orders) =>
             /\ Len(orders') = Len(orders) + 1
             /\ \E r \in Runs :
                   /\ gen[r].pc = "insertOrder" /\ gen'[r].pc = "insertItems"
                   /\ gen'[r].order = Len(orders')
                   /\ orders'[Len(orders')].vendor_id = CurrentVendor(r)
                   /\ orders'[Len(orders')].status = "pending"
                   /\ orders'[Len(orders')].delivery_address =
                         gen[r].vendorsResult[gen[r].vi].address]_vars

\* an order whose vendor has changed address since the run read it
C11_Witness ==
    \E o \in DOMAIN orders :
        /\ orders[o].status = "pending"
        /\ orders[o].delivery_address = 1
        /\ vendors[orders[o].vendor_id].address = 2

\* the moves of the status lifecycle
Lifecycle ==
    {<<"pending", "processing">>, <<"processing", "out_for_delivery">>,
     <<"out_for_delivery", "delivered">>, <<"pending", "cancelled">>}

\* C12: every step that changes the status of an order moves it along
\* pending -> processing -> out_for_delivery -> delivered or pending ->
\* cancelled: no move backwards, no skipped step, no move out of 'delivered'
\* or 'cancelled', no cancellation from a status other than 'pending'.
C12_StatusLifecycle ==
    [][\A o \in DOMAIN orders :
          orders'[o].status # orders[o].status
          => <<orders[o].status, orders'[o].status>> \in Lifecycle]_vars

\* the entries of the result of run r
Entries(r) == {gen[r].generatedOrders[i] : i \in 1..Len(gen[r].generatedOrders)}

SumOfNamed(result, name, f) ==
    SumSeq([i \in 1..Len(result) |->
               IF result[i].product_name = name THEN result[i][f].value ELSE 0])

RowsNamed(result, name) == {i \in 1..Len(result) : result[i].product_name = name}

CancellationsOf(S, d) ==
    {c \in cancelled_orders : c.cancel_date = d /\ c.vendor_id \in S}

\* the response reports exactly the cancellations of the vendors in S for
\* the target date: one entry per row, with the vendor's name and the reason
ReportsCancellationsOf(S) ==
    LET rows == CancellationsOf(S, pk.targetDate)
        reported == pk.response.cancelled_orders
    IN  /\ Len(reported) = Cardinality(rows)
        /\ \A c \in rows : \E i \in 1..Len(reported) :
               /\ reported[i].vendor_name = vendors[c.vendor_id].name
               /\ reported[i].reason = c.reason
        /\ pk.response.summary.cancelled_vendors = Cardinality(rows)

\* C15: the response's cancelled_orders holds every cancelled_orders row of
\* the target date whose vendor is active (vendor name and reason), and
\* summary.cancelled_vendors is the number of those rows.
C15_ReportsActiveCancellations ==
    pk.pc = "responded" => ReportsCancellationsOf({v \in Vendors : vendors[v].is_active})

\* C15 as stated: every cancelled_orders row of the target date is reported
C15_ReportsEveryCancellation ==
    pk.pc = "responded" => ReportsCancellationsOf(Vendors)

\* a response that reports a cancellation
C15_Witness ==
    /\ pk.pc = "responded"
    /\ Len(pk.response.cancelled_orders) >= 1
    /\ pk.response.summary.cancelled_vendors = Len(pk.response.cancelled_orders)

\* the products and the vendors behind the entries of a packing list for d
ListedProducts(d) ==
    {p \in Products :
        /\ products[p].is_active
        /\ \/ \E n \in daily_needs : n.product_id = p /\ vendors[n.vendor_id].is_active
           \/ \E e \in extra_orders :
                 e.product_id = p /\ e.order_date = d /\ vendors[e.vendor_id].is_active}

ListedVendors(d) ==
    {v \in Vendors :
        /\ vendors[v].is_active
        /\ \/ \E n \in daily_needs : n.vendor_id = v /\ products[n.product_id].is_active
           \/ \E e \in extra_orders :
                 e.vendor_id = v /\ e.order_date = d /\ products[e.product_id].is_active}

\* C16: summary.total_products is the number of distinct products in the
\* list and summary.total_vendors the number of distinct vendors behind at
\* least one entry, each counted once.
C16_SummaryCountsDistinct ==
    pk.pc = "responded"
    => /\ pk.response.summary.total_products = Cardinality(ListedProducts(pk.targetDate))
       /\ pk.response.summary.total_vendors = Cardinality(ListedVendors(pk.targetDate))

\* the daily_needs rows of vendor v in table t, as (product_id, quantity in
\* 1/10000) pairs
NeedPairs(t, v) == {<<n.product_id, 100 * n.quantity>> : n \in {m \in t : m.vendor_id = v}}

\* the (product_id, quantity) pairs of a request's list
ListPairs(list) == {<<list[i].product_id, list[i].quantity>> : i \in 1..Len(list)}

\* this step is the one in which set-daily-needs request k answers 200
AnswersOk(k) ==
    /\ dn'[k].pc = "idle" /\ dn'[k].status = 200
    /\ \/ dn[k].pc = "insert"
       \/ requests' > requests /\ k \in FreeSlot

\* C17: at the step in which a set-daily-needs request of vendor V with list
\* L answers 200, V's daily_needs rows are exactly the (product_id,
\* quantity) pairs of L; and a step of a request of V changes no row of
\* another vendor.
C17_NeedsAreExactlyTheList ==
    [][\A k \in DnSlots :
          /\ AnswersOk(k)
             => NeedPairs(daily_needs', dn'[k].vendor) = ListPairs(dn'[k].list)
          /\ dn'[k] # dn[k]
             => \A w \in Vendors \ {dn'[k].vendor} :
                   NeedPairs(daily_needs', w) = NeedPairs(daily_needs, w)]_vars

\* C18: in every state a vendor has at most one daily_needs row per product.
C18_OneNeedPerProduct ==
    \A n, m \in daily_needs :
        (n.vendor_id = m.vendor_id /\ n.product_id = m.product_id) => n = m

\* two requests of one vendor in flight together, the second one's INSERT
\* of a product the first has already inserted refused
C18_Witness ==
    /\ dn[1].vendor = dn[2].vendor
    /\ dn[1].pc = "insert"
    /\ dn[2].status = 500
    /\ dn[2].list \in NeedLists
    /\ \E n \in daily_needs : n.vendor_id = dn[1].vendor

\* this step is a request of the named kind, answered in reply'
Answers(request) ==
    /\ requests' > requests
    /\ reply'.seq = requests'
    /\ reply'.request = request

\* C19: no two cancelled_orders rows share (vendor_id, cancel_date); a
\* cancel-order request of vendor V for a date V has already cancelled is
\* answered with an error and changes nothing: the cancellation that exists
\* stays as it is (so generation for V on that date stays suppressed), and
\* no step removes or rewrites a cancellation.
C19_SecondCancelRefused ==
    /\ [][/\ \A c \in cancelled_orders : c \in cancelled_orders'
          /\ (Answers("cancel-order") /\ HasCancellation(reply'.vendor, reply'.date))
             => /\ reply'.status >= 400
                /\ tables' = tables /\ gen' = gen /\ dn' = dn /\ pk' = pk]_vars
    /\ [](\A c, e \in cancelled_orders :
             (c.vendor_id = e.vendor_id /\ c.cancel_date = e.cancel_date) => c = e)

\* a second cancel-order (reason 'holiday') refused, the first one (reason
\* 'closed') still in place
C19_Witness ==
    /\ reply.request = "cancel-order"
    /\ reply.status = 500
    /\ \E c \in cancelled_orders :
          c.vendor_id = reply.vendor /\ c.cancel_date = reply.date /\ c.reason = "closed"

\* C20: every daily_needs row, every extra_orders row and every order_items
\* row has quantity > 0; an extra-orders request with a quantity <= 0 and a
\* set-daily-needs request whose list holds a quantity <= 0 are answered
\* with an error and change no table.
C20_QuantitiesPositive ==
    /\ [][/\ (Answers("extra-orders") /\ reply'.quantity <= 0)
             => reply'.status >= 400 /\ tables' = tables
          /\ \A k \in DnSlots :
                (dn[k].pc = "idle" /\ dn'[k] # dn[k]
                 /\ \E i \in 1..Len(dn'[k].list) : dn'[k].list[i].quantity <= 0)
                => dn'[k].status >= 400 /\ dn'[k].pc = "idle" /\ tables' = tables]_vars
    /\ [](/\ \A n \in daily_needs : n.quantity > 0
          /\ \A e \in extra_orders : e.quantity > 0
          /\ \A o \in DOMAIN order_items : \A i \in DOMAIN order_items[o] :
                order_items[o][i].quantity > 0)

\* a request with a quantity <= 0 refused, and a run that has inserted items
C20_Witness ==
    /\ \/ reply.request = "extra-orders" /\ reply.quantity <= 0 /\ reply.status = 400
       \/ \E k \in DnSlots :
             /\ dn[k].status = 400
             /\ \E i \in 1..Len(dn[k].list) : dn[k].list[i].quantity <= 0
    /\ \E o \in DOMAIN order_items : Len(order_items[o]) > 0

\* C21: when two distinct products on sale bear one name, the response has
\* one entry under the name, and its total_quantity is the sum of the
\* total_quantity of every row of both query results under the name.
C21_SharedNameSumsBoth ==
    pk.pc = "responded"
    => \A p, q \in Products :
          (p # q /\ products[p].is_active /\ products[q].is_active
           /\ products[p].name = products[q].name
           /\ RowsNamed(pk.dailyNeedsResult \o pk.extraOrdersResult, products[p].name) # {})
          => PackedQuantity(pk.response, products[p].name)
             = JsNumber(SumOfNamed(pk.dailyNeedsResult, products[p].name, "total_quantity")
                        + SumOfNamed(pk.extraOrdersResult, products[p].name, "total_quantity"))

RECURSIVE SumAmount(_)
\* the sum of quantity * price over a finite set of rows, at the prices the
\* products table holds now
SumAmount(rows) ==
    IF rows = {} THEN 0
    ELSE LET x == CHOOSE y \in rows : TRUE
         IN  x.quantity * products[x.product_id].price + SumAmount(rows \ {x})

\* the lines of a list on a product that is off sale
LinesOffSale(lines) == {i \in DOMAIN lines : ~products[lines[i].product_id].is_active}

\* C22: the step in which run r reads the daily needs of vendor V raises no
\* error, keeps V exactly when V has a daily need on a product on sale, and
\* then holds no line on a product off sale and a total made of the rows on
\* sale only; the step in which it reads the extra orders raises no error,
\* appends no line on a product off sale, adds to the total the rows on sale
\* only, and goes on to insert the order.
C22_OffSaleRowsLeftOut ==
    /\ [][\A r \in Runs :
            (gen[r].pc = "readNeeds" /\ gen'[r] # gen[r])
            => /\ gen'[r].status # 500
               /\ HasActiveNeed(CurrentVendor(r)) <=> gen'[r].pc = "readExtras"
               /\ LinesOffSale(gen'[r].orderItems) = {}
               /\ gen'[r].totalAmount
                    = IF gen'[r].pc = "readExtras"
                      THEN SumAmount(ActiveNeedRows(CurrentVendor(r)))
                      ELSE 0]_vars
    /\ [][\A r \in Runs :
            (gen[r].pc = "readExtras" /\ gen'[r] # gen[r])
            => /\ gen'[r].status # 500
               /\ gen'[r].pc = "insertOrder"
               /\ LinesOffSale(Appended(gen[r], gen'[r])) = {}
               /\ gen'[r].totalAmount - gen[r].totalAmount
                    = SumAmount(ActiveExtraRows(CurrentVendor(r), gen[r].orderDate))]_vars

\* C22 witness: a run has reported an order for vendor V who holds, as from
\* the start, a daily need and an extra order for the date on a product off
\* sale; the order has an item row, and none on that product.
C22_Witness ==
    \E r \in Runs : \E k \in DOMAIN gen[r].generatedOrders :
        LET o == gen[r].generatedOrders[k].order_id
            v == orders[o].vendor_id
        IN  /\ requests = 0
            /\ \E n \in daily_needs :
                  n.vendor_id = v /\ ~products[n.product_id].is_active
            /\ \E e \in extra_orders :
                  /\ e.vendor_id = v /\ e.order_date = orders[o].order_date
                  /\ ~products[e.product_id].is_active
            /\ Len(order_items[o]) >= 1
            /\ \A i \in DOMAIN order_items[o] :
                  products[order_items[o][i].product_id].is_active

\* what the orders run r has created for vendor v hold: amount, address and
\* item rows of each
CreatedFor(r, v) ==
    {[total_amount |-> orders[o].total_amount,
      delivery_address |-> orders[o].delivery_address,
      items |-> order_items[o]] : o \in {i \in gen[r].inserted : orders[i].vendor_id = v}}

\* run r has answered, had vendor v in its list, and none of its statements
\* for v has failed
AnsweredFor(r, v) ==
    /\ gen[r].pc = "responded"
    /\ \E j \in DOMAIN gen[r].vendorsResult : gen[r].vendorsResult[j].id = v
    /\ ~(gen[r].status = 500 /\ CurrentVendor(r) = v)

\* C23: two runs for one date over the same tables (no request made), in
\* neither of which a statement for vendor V has failed, have created for V
\* orders of the same content, whatever became of the other vendors.
C23_VendorUnaffectedByOthers ==
    \A r1, r2 \in Runs : \A v \in Vendors :
        (/\ requests = 0
         /\ gen[r1].orderDate = gen[r2].orderDate
         /\ AnsweredFor(r1, v) /\ AnsweredFor(r2, v))
        => CreatedFor(r1, v) = CreatedFor(r2, v)

\* the quantity of product p on the item rows of the orders run r has created
OrderedQuantity(r, p) ==
    SumSeq([o \in 1..Len(orders) |->
              IF o \in gen[r].inserted
              THEN SumSeq([i \in 1..Len(order_items[o]) |->
                             IF order_items[o][i].product_id = p
                             THEN order_items[o][i].quantity ELSE 0])
              ELSE 0])

\* C24: for a date D without any cancellation, the packing list for D and a
\* run for D that answered 200, both computed from the same tables, agree on
\* every product (taken where no other product bears its name): the entry's
\* total_quantity is the quantity of the product on the item rows of the
\* orders the run created.
C24_PackingEqualsOrdered ==
    \A r \in Runs :
        (/\ gen[r].pc = "responded" /\ gen[r].status = 200
         /\ pk.pc = "responded" /\ pk.targetDate = gen[r].orderDate
         /\ \A c \in cancelled_orders : c.cancel_date # pk.targetDate)
        => \A p \in Products :
              (\A q \in Products : q # p => products[q].name # products[p].name)
              => PackedQuantity(pk.response, products[p].name)
                 = JsNumber(OrderedQuantity(r, p))

\* C25: no step takes away a product that a daily_needs, extra_orders or
\* order_items row references, and no step takes an item row away.
C25_DeletionKeepsDemandAndHistory ==
    [][/\ \A p \in DOMAIN products : UsageCount(p) > 0 => p \in DOMAIN products'
       /\ \A o \in DOMAIN order_items :
             Len(order_items'[o]) >= Len(order_items[o])]_vars

\* the entries of its list that set-daily-needs request k has inserted
InsertedBy(k) == SubSeq(dn[k].list, 1, Len(dn[k].list) - Len(dn[k].todo))

\* C26: at the step in which a set-daily-needs request of vendor V answers
\* 500 out of its insert loop, V's daily_needs rows are exactly the entries
\* of its list inserted before the failing one, as stored.
C26_FailedReplaceLeavesPrefix ==
    [][\A k \in DnSlots :
          (dn[k].pc = "insert" /\ dn'[k].status = 500)
          => {<<n.product_id, n.quantity>> :
                 n \in {m \in daily_needs' : m.vendor_id = dn[k].vendor}}
             = {<<InsertedBy(k)[i].product_id, ToDecimal2(InsertedBy(k)[i].quantity)>> :
                   i \in 1..Len(InsertedBy(k))}]_vars

\* this step is a statement of a write request made with the token of vendor v
VendorWrite(v) ==
    \/ \E d \in Dates : CancelOrder(v, d, "holiday")
    \/ \E d \in Dates, q \in {5000, 0} : AddExtraOrder(v, 1, q, d)
    \/ \E k \in DnSlots, list \in NeedLists : SetDailyNeeds(k, v, list)
    \/ \E k \in DnSlots : dn[k].vendor = v /\ SetDailyNeedsInsert(k)
    \/ UpdateProfile(v, {}, {2})
    \/ \E o \in 1..(Len(orders) + 1), items \in ReturnLists : CreateReturnRequest(v, o, items)
    \/ rt.vendor = v /\ CreateReturnRequestInsert
    \/ \E n \in DOMAIN notifications : MarkNotificationRead(v, n)

\* the rows of a table that do not bear vendor_id v
RowsOfOthers(rows, v) == {x \in rows : x.vendor_id # v}

\* this step leaves every row that is not vendor v's as it was, and adds none
OnlyRowsOf(v) ==
    /\ \A w \in Vendors \ {v} : vendors'[w] = vendors[w]
    /\ products' = products
    /\ RowsOfOthers(daily_needs', v) = RowsOfOthers(daily_needs, v)
    /\ RowsOfOthers(extra_orders', v) = RowsOfOthers(extra_orders, v)
    /\ RowsOfOthers(cancelled_orders', v) = RowsOfOthers(cancelled_orders, v)
    /\ RowsOfOthers(return_requests', v) = RowsOfOthers(return_requests, v)
    /\ orders' = orders
    /\ order_items' = order_items
    /\ \A n \in DOMAIN notifications :
          notifications[n].vendor_id # v => notifications'[n] = notifications[n]

\* C27: a statement of a write request of vendor V changes no row that is
\* not V's; a return request reaches its inserts only for an order of its
\* vendor, so that a return_requests row belongs to a vendor with an order;
\* and the body of an order read holds an order of the vendor who read it.
C27_VendorTouchesOwnRowsOnly ==
    /\ [][\A v \in Vendors : VendorWrite(v) => OnlyRowsOf(v)]_vars
    /\ [](/\ rt.pc = "insert"
             => rt.order \in DOMAIN orders /\ orders[rt.order].vendor_id = rt.vendor
          /\ \A x \in return_requests :
                \E o \in DOMAIN orders : orders[o].vendor_id = x.vendor_id
          /\ view.body # <<>> => view.body[1].vendor_id = view.vendor)

\* C27 witness: orders of two vendors exist, a vendor has been answered 404
\* on reading an order of the other, and a return request of a vendor for an
\* order has been stored.
C27_Witness ==
    /\ view.status = 404
    /\ view.order \in DOMAIN orders
    /\ orders[view.order].vendor_id # view.vendor
    /\ rt.status = 201
    /\ \E x \in return_requests : x.vendor_id = rt.vendor
    /\ \E o \in DOMAIN orders : orders[o].vendor_id # rt.vendor

\* the total_quantity a query result of the packing list gives, all rows
ResultQuantity(result) == SumSeq([i \in 1..Len(result) |-> result[i].total_quantity.value])

\* the ids of the vendors in the list of run r
ListedIn(r) == {gen[r].vendorsResult[j].id : j \in DOMAIN gen[r].vendorsResult}

\* C28: while vendor V is switched off, a request received with V's token is
\* answered 401 and changes no table; a run that starts does not list V, and
\* a run creates orders for the vendors of its list only; the packing list
\* queries count the rows of no vendor that is switched off; and the status
\* update itself leaves orders and items as they are.
C28_InactiveVendorShutOut ==
    /\ [][\A v \in Vendors :
            ~vendors[v].is_active
            => /\ \/ \E d \in Dates : CancelOrder(v, d, "holiday")
                  \/ \E d \in Dates, q \in {5000, 0} : AddExtraOrder(v, 1, q, d)
                  \/ UpdateProfile(v, {}, {2})
                  => /\ UNCHANGED tables
                     /\ reply'.vendor = v /\ reply'.status = 401
               /\ \A k \in DnSlots, list \in NeedLists :
                     SetDailyNeeds(k, v, list)
                     => /\ UNCHANGED tables
                        /\ dn'[k].pc = "idle" /\ dn'[k].status = 401]_vars
    /\ [][\A r \in Runs :
            (gen[r].pc = "idle" /\ gen'[r].pc # "idle")
            => \A j \in DOMAIN gen'[r].vendorsResult :
                  vendors[gen'[r].vendorsResult[j].id].is_active]_vars
    /\ [](\A r \in Runs : \A o \in gen[r].inserted : orders[o].vendor_id \in ListedIn(r))
    /\ [][/\ (pk.pc = "idle" /\ pk'.pc = "queryExtra")
             => ResultQuantity(pk'.dailyNeedsResult)
                = SumQuantity({n \in daily_needs :
                                  /\ vendors[n.vendor_id].is_active
                                  /\ products[n.product_id].is_active})
          /\ (pk.pc = "queryExtra" /\ pk'.pc = "queryCancelled")
             => ResultQuantity(pk'.extraOrdersResult)
                = SumQuantity({e \in extra_orders :
                                  /\ e.order_date = pk.targetDate
                                  /\ vendors[e.vendor_id].is_active
                                  /\ products[e.product_id].is_active})]_vars
    /\ [][\A v \in Vendors, is_active \in BOOLEAN :
            UpdateVendorStatus(v, is_active)
            => orders' = orders /\ order_items' = order_items]_vars

\* C28 witness: vendor V, switched off, holds a daily need on a product on
\* sale; a request with V's token has been answered 401, a run that does
\* not list V has answered 200 with an order for another vendor, and a
\* packing list has been answered that counts less than all daily needs.
C28_Witness ==
    \E v \in Vendors :
        /\ ~vendors[v].is_active
        /\ HasActiveNeed(v)
        /\ reply.vendor = v /\ reply.status = 401
        /\ gen[1].pc = "responded" /\ gen[1].status = 200
        /\ v \notin ListedIn(1)
        /\ gen[1].inserted # {}
        /\ pk.pc = "responded"
        /\ ResultQuantity(pk.dailyNeedsResult)
             < SumQuantity({n \in daily_needs : products[n.product_id].is_active})

\* C29: a step of a generation run leaves vendors, products, daily_needs,
\* extra_orders and cancelled_orders as they are; a step of the packing list
\* leaves every table as it is.
C29_RunAndPackingListFrame ==
    [][/\ gen' # gen
          => UNCHANGED <<vendors, products, daily_needs, extra_orders, cancelled_orders,
                         return_requests, notifications>>
       /\ pk' # pk
          => UNCHANGED <<tables, return_requests, notifications>>]_vars

\* C29 witness: two runs for one date have each created the vendor of an
\* extra order for that date an order of two item rows, the daily need and
\* the extra order, which is still there; a packing list has been answered.
C29_Witness ==
    /\ pk.pc = "responded"
    /\ \E e \in extra_orders :
          \E o1 \in gen[1].inserted, o2 \in gen[2].inserted :
             /\ orders[o1].vendor_id = e.vendor_id /\ orders[o2].vendor_id = e.vendor_id
             /\ orders[o1].order_date = e.order_date /\ orders[o2].order_date = e.order_date
             /\ Len(order_items[o1]) = 2 /\ order_items[o2] = order_items[o1]
             /\ order_items[o1][2].product_id = e.product_id

\* run r holds the lines of a vendor it has kept
HoldsLines(g) == g.pc \in {"readExtras", "insertOrder", "insertItems"}

====
